---------------------------- MODULE Spec2Model ----------------------------
(***************************************************************************)
(* Stride-addressed views of zen_gdk (force::matrix_view,                  *)
(* force::vector_view, force::math::tensor_view, the strided iterators)    *)
(* and the owning containers that produce and ingest them.                 *)
(*                                                                         *)
(* Memory is one array of cells, mem, owned by a container of M x N        *)
(* elements; an address is the index of an ELEMENT from the start of that  *)
(* array (C++ pointer arithmetic counts in elements), and an element is    *)
(* esize consecutive scalars.  A view is the record of its private         *)
(* fields.  The unsigned expressions of the source (1 - width, with width  *)
(* a std::size_t) wrap modulo 2^64 and are converted back to               *)
(* std::ptrdiff_t at the call, which is the identity on the small values   *)
(* used here, so they are written as integer expressions.                  *)
(***************************************************************************)
EXTENDS Integers, Sequences, FiniteSets, TLC

VARIABLES
    kind,    \* the family of object under test
    shape,   \* <<M, N>> of the owning container whose storage is mem
    esize,   \* scalars per element (sizeof(Ty) / sizeof(scalar))
    mem,     \* the backing buffer: scalar index -> scalar
    view,    \* the view (or iterator) under test
    src,     \* the view the last operation was applied to
    op,      \* name of the last operation
    arg,     \* the arguments of the last operation
    acc,     \* what the last operation read, wrote or built
    nops     \* operations applied since the view was constructed

vars == <<kind, shape, esize, mem, view, src, op, arg, acc, nops>>

---------------------------------------------------------------------------
\* Bounds of the model.

\* largest width/height, offset and stride handed to a view constructor
MaxDim == 2
MaxStride == 2
\* how many operations one run applies to the view it constructed
MaxOps == 2

MaxOff == 1
Dims == 1..MaxDim
Offsets == 0..MaxOff
Strides == 1..MaxStride

\* shapes of the owning containers: size 1, 1x4, 3x1, 4x4 and the 2x2 of
\* the reversal scenario
Shapes == {<<1, 1>>, <<1, 4>>, <<3, 1>>, <<4, 4>>, <<2, 2>>}

\* a container of scalars of every shape, and the 2x2 of 3-element vectors
Scenarios == {<<s, 1>> : s \in Shapes} \cup {<<<<2, 2>>, 3>>}

\* the scalar buffer of an M x N container of elements of es scalars:
\* element k holds es copies of k + 1 ([1,1,1, 2,2,2, ...] for es = 3)
InitMem(M, N, es) == [c \in 0..(M * N * es - 1) |-> (c \div es) + 1]

NumElems == shape[1] * shape[2]

\* an element read or written through a typed pointer
Elem(m, a) == [c \in 1..esize |-> m[a * esize + c - 1]]
PutElem(m, a, val) ==
    [c \in DOMAIN m |->
        IF c \div esize = a THEN val[(c % esize) + 1] ELSE m[c]]

InBuf(a) == a >= 0 /\ a < NumElems

NoAcc == [what |-> "none"]

---------------------------------------------------------------------------
\* force::matrix_view (src/include/force/matrix_view.hpp)

matrix_view(p, x, y, w, h, dy, dx) ==
    [mPtr |-> p + y * dy + x * dx, mDeltaY |-> dy, mDeltaX |-> dx,
     mWidth |-> w, mHeight |-> h]

\* operator[](point_type p) with p = (x, y): the address of the element
MvAt(v, x, y) == v.mPtr + y * v.mDeltaY + x * v.mDeltaX

\* faulty variant of matrix_view::view: the column offset is dropped
matrix_view_view_no_offset(v, tx, ty, w, h) ==
    matrix_view(v.mPtr, 0, ty, w, h, v.mDeltaY, v.mDeltaX)

matrix_view_view(v, tx, ty, w, h) ==
    matrix_view(v.mPtr, tx, ty, w, h, v.mDeltaY, v.mDeltaX)

\* faulty variants of transpose_view, used to test that the properties
\* below depend on it: one keeps the sizes, one keeps the strides
transpose_view_keeps_sizes(v) ==
    matrix_view(v.mPtr, 0, 0, v.mWidth, v.mHeight, v.mDeltaX, v.mDeltaY)
transpose_view_keeps_strides(v) ==
    matrix_view(v.mPtr, 0, 0, v.mHeight, v.mWidth, v.mDeltaY, v.mDeltaX)

transpose_view(v) ==
    matrix_view(v.mPtr, 0, 0, v.mHeight, v.mWidth, v.mDeltaX, v.mDeltaY)

\* faulty variant of reverse_row_view: the column delta keeps its sign
reverse_row_view_same_sign(v) ==
    matrix_view(v.mPtr, 1 - v.mWidth, 0, v.mWidth, v.mHeight,
                v.mDeltaY, v.mDeltaX)

reverse_row_view(v) ==
    matrix_view(v.mPtr, 1 - v.mWidth, 0, v.mWidth, v.mHeight,
                v.mDeltaY, -v.mDeltaX)

\* faulty variant of reverse_col_view: the other axis is reversed
reverse_col_view_wrong_axis(v) ==
    matrix_view(v.mPtr, 1 - v.mWidth, 0, v.mWidth, v.mHeight,
                v.mDeltaY, -v.mDeltaX)

reverse_col_view(v) ==
    matrix_view(v.mPtr, 0, 1 - v.mHeight, v.mWidth, v.mHeight,
                -v.mDeltaY, v.mDeltaX)

\* faulty variant of rotate_view_half_pi: the rotation is clockwise
rotate_view_half_pi_clockwise(v) ==
    matrix_view(v.mPtr, 1 - v.mHeight, 0, v.mHeight, v.mWidth,
                v.mDeltaX, -v.mDeltaY)

\* rotations by 90 degrees counterclockwise, 90 degrees clockwise and 180
rotate_view_half_pi(v) ==
    matrix_view(v.mPtr, 0, 1 - v.mWidth, v.mHeight, v.mWidth,
                -v.mDeltaX, v.mDeltaY)
rotate_view_neg_half_pi(v) ==
    matrix_view(v.mPtr, 1 - v.mHeight, 0, v.mHeight, v.mWidth,
                v.mDeltaX, -v.mDeltaY)

\* faulty variant of rotate_view_pi: the rows keep their order
rotate_view_pi_rows_kept(v) ==
    matrix_view(v.mPtr, 1 - v.mWidth, 0, v.mWidth, v.mHeight,
                v.mDeltaY, -v.mDeltaX)

rotate_view_pi(v) ==
    matrix_view(v.mPtr, 1 - v.mWidth, 1 - v.mHeight, v.mWidth, v.mHeight,
                -v.mDeltaY, -v.mDeltaX)

MvCells(v) == {MvAt(v, x, y) : x \in 0..(v.mWidth - 1), y \in 0..(v.mHeight - 1)}
MvValid(v) == \A a \in MvCells(v) : InBuf(a)

\* force::matrix<Ty, M, N>::operator[](point_type p) with p = (x, y)
matrix_at(x, y) == y * shape[2] + x

\* force::matrix<Ty, M, N>::view(x, y, w, h)
matrix_view_xywh(x, y, w, h) == matrix_view(0, x, y, w, h, shape[2], 1)

\* faulty variant of matrix::view(): column-major strides
matrix_to_view_column_major ==
    matrix_view(0, 0, 0, shape[2], shape[1], 1, shape[1])

\* force::matrix<Ty, M, N>::operator matrix_view / view()
matrix_to_view == matrix_view(0, 0, 0, shape[2], shape[1], shape[2], 1)

---------------------------------------------------------------------------
\* A strided loop "for (i = b; i != e; ++i)" of vector_iterator /
\* tensor_iterator: the addresses i takes, in order.  operator!= compares
\* addresses only and operator++ adds the stride.
RECURSIVE Walk(_, _, _)
Walk(b, e, s) == IF b = e THEN <<>> ELSE <<b>> \o Walk(b + s, e, s)

RECURSIVE Flatten(_)
Flatten(ss) == IF ss = <<>> THEN <<>> ELSE Head(ss) \o Flatten(Tail(ss))

\* row_begin()/row_end() and col_begin(i)/col_end(i) of matrix_view
row_begin(v) == v.mPtr
row_end(v) == row_begin(v) + v.mDeltaY * v.mHeight
col_begin(v, i) == i
col_end(v, i) == col_begin(v, i) + v.mDeltaX * v.mWidth

\* the addresses the nested loop of for_each_view / copy_view dereferences
MvVisit(v) ==
    LET rows == Walk(row_begin(v), row_end(v), v.mDeltaY)
    IN  Flatten([r \in 1..Len(rows) |->
                    Walk(col_begin(v, rows[r]), col_end(v, rows[r]), v.mDeltaX)])

\* faulty variant of for_each_view: fo is invoked before the row's elements
for_each_view_calls_fo_first(v) ==
    LET rows == Walk(row_begin(v), row_end(v), v.mDeltaY)
        cols(r) == Walk(col_begin(v, rows[r]), col_end(v, rows[r]), v.mDeltaX)
    IN  Flatten([r \in 1..Len(rows) |->
                    <<[fn |-> "fo", at |-> rows[r]]>>
                    \o [k \in 1..Len(cols(r)) |-> [fn |-> "fi", at |-> cols(r)[k]]]])

\* for_each_view(view, fi, fo): the calls of fi (with *j) and of fo (with
\* *i) in the order the nested loop makes them
for_each_view_calls(v) ==
    LET rows == Walk(row_begin(v), row_end(v), v.mDeltaY)
        cols(r) == Walk(col_begin(v, rows[r]), col_end(v, rows[r]), v.mDeltaX)
    IN  Flatten([r \in 1..Len(rows) |->
                    [k \in 1..Len(cols(r)) |-> [fn |-> "fi", at |-> cols(r)[k]]]
                    \o <<[fn |-> "fo", at |-> rows[r]]>>])

\* for_each_view(view, fi, fo): the arguments of the calls of fi
for_each_view(m, v) == LET a == MvVisit(v) IN [k \in 1..Len(a) |-> Elem(m, a[k])]

\* faulty variant of copy_view: the columns are walked before the rows
copy_view_by_columns(m, v) ==
    LET a == MvVisit(matrix_view(v.mPtr, 0, 0, v.mHeight, v.mWidth,
                                 v.mDeltaX, v.mDeltaY))
    IN  [k \in 1..Len(a) |-> Elem(m, a[k])]

\* copy_view(view, dest) with the rule *d++ = v: what lands in dest
copy_view(m, v) == LET a == MvVisit(v) IN [k \in 1..Len(a) |-> Elem(m, a[k])]

\* force::matrix<Ty, M, N>::matrix(const matrix_view): mData of the new matrix
matrix_from_view(m, v) == copy_view(m, v)

---------------------------------------------------------------------------
\* force::vector_view and force::vector_iterator
\* (src/include/force/vector_view.hpp)

vector_view(beg, x, l, d) == [mPtr |-> beg + x * d, mLength |-> l, mDelta |-> d]

\* vector_view::operator[](d): the address of the element
VvAt(v, d) == v.mPtr + d * v.mDelta

vector_view_view(v, t, l) == vector_view(v.mPtr, t, l, v.mDelta)

reverse_view(v) ==
    vector_view(v.mPtr, v.mDelta * (1 - v.mLength), v.mLength, -v.mDelta)

\* begin() / end() and the addresses a range-for over the view dereferences
vector_view_begin(v) == [mPtr |-> v.mPtr, mDelta |-> v.mDelta]
VvVisit(v) == Walk(v.mPtr, v.mPtr + v.mDelta * v.mLength, v.mDelta)

VvCells(v) == {VvAt(v, k) : k \in 0..(v.mLength - 1)}
VvValid(v) == \A a \in VvCells(v) : InBuf(a)

\* matrix_view::row_at(i) and col_at(i)
matrix_view_row_at(v, i) == vector_view(v.mPtr + i * v.mDeltaY, 0, v.mWidth, v.mDeltaX)
matrix_view_col_at(v, i) == vector_view(v.mPtr + i * v.mDeltaX, 0, v.mHeight, v.mDeltaY)

\* the scalar handed to *= and /=, and what the operator does to one element
Scalars == {2}
ScaleFn(opn, e, s) ==
    [c \in 1..Len(e) |-> IF opn = "*=" THEN e[c] * s ELSE e[c] \div s]

\* a loop "for each address in addrs: element opn= s"
RECURSIVE scale_cells(_, _, _, _, _)
scale_cells(m, addrs, k, opn, s) ==
    IF k > Len(addrs) THEN m
    ELSE scale_cells(PutElem(m, addrs[k], ScaleFn(opn, Elem(m, addrs[k]), s)),
                     addrs, k + 1, opn, s)

\* vector_view::operator*=(value_type) / operator/=(value_type):
\* for (i = 0; i != length(); ++i) { mPtr[i] *= v; }
vector_view_scale_addrs(v) == [k \in 1..v.mLength |-> v.mPtr + (k - 1)]
vector_view_scale(m, v, opn, s) == scale_cells(m, vector_view_scale_addrs(v), 1, opn, s)

\* matrix_view::operator*=(value_type) / operator/=(value_type):
\* for (i = 0; i != mHeight; ++i) std::ranges::for_each(row_at(i), k *= v)
matrix_view_scale_addrs(v) ==
    Flatten([i \in 1..v.mHeight |-> VvVisit(matrix_view_row_at(v, i - 1))])
matrix_view_scale(m, v, opn, s) == scale_cells(m, matrix_view_scale_addrs(v), 1, opn, s)

\* vector_view::delta(d), vector_view::length(l) and
\* vector_iterator::stride(d): the setters assign the member
vector_view_set_delta(v, d) == [v EXCEPT !.mDelta = d]
vector_view_set_length(v, l) == [v EXCEPT !.mLength = l]
vector_iterator_set_stride(i, d) == [i EXCEPT !.mDelta = d]

\* force::vector<Ty, N>::operator vector_view / view()
vector_to_view == vector_view(0, 0, NumElems, 1)

\* force::vector<Ty, N>::vector(const vector_view) and operator=:
\* std::ranges::copy(v, begin())
vector_from_view(m, v) == LET a == VvVisit(v) IN [k \in 1..Len(a) |-> Elem(m, a[k])]

\* vector_iterator: operator+(d), operator[](d), ++ and --
vector_iterator_plus(i, d) == [mPtr |-> i.mPtr + i.mDelta * d, mDelta |-> i.mDelta]
vector_iterator_index(i, d) == i.mPtr + d
vector_iterator_inc(i) == [i EXCEPT !.mPtr = i.mPtr + i.mDelta]
vector_iterator_dec(i) == [i EXCEPT !.mPtr = i.mPtr - i.mDelta]

\* force::vector<Ty, N>::begin()
vector_begin == [mPtr |-> 0, mDelta |-> 1]

---------------------------------------------------------------------------
\* force::math::tensor_iterator (src/include/fmath/tensor_iterator.hpp):
\* [mPtr, mFirstStride, mSubRangeInfo], mSubRangeInfo = <<stride, length>>
\* of the inner axis for order 2 and <<>> for order 1

tensor_iterator(beg, s1, rgs) == [mPtr |-> beg, mFirstStride |-> s1, mSubRangeInfo |-> rgs]

tensor_iterator_plus(i, d) ==
    tensor_iterator(i.mPtr + d * i.mFirstStride, i.mFirstStride, i.mSubRangeInfo)
tensor_iterator_index(i, d) == i.mPtr + d
tensor_iterator_inc(i) == [i EXCEPT !.mPtr = i.mPtr + i.mFirstStride]
tensor_iterator_dec(i) == [i EXCEPT !.mPtr = i.mPtr - i.mFirstStride]

\* faulty variant of tensor_iterator::begin(): the inner iterator steps by
\* the outer stride
tensor_iterator_begin_outer_stride(i) == tensor_iterator(i.mPtr, i.mFirstStride, <<>>)

\* begin() / end() of an order-2 iterator: the order-1 iterator of the inner axis
tensor_iterator_begin(i) == tensor_iterator(i.mPtr, i.mSubRangeInfo[1], <<>>)
tensor_iterator_end(i) == tensor_iterator_plus(tensor_iterator_begin(i), i.mSubRangeInfo[2])

---------------------------------------------------------------------------
\* force::math::tensor_view (src/include/fmath/tensor_view.hpp and
\* src/include/fmath/container/tensor_view.hpp): mLengths holds the
\* (stride, length) pair of each axis, <<xs, xl, ys, yl>> for order 2

\* enum class access / sequences::seq_x, seq_y
access_horizontal == 1
access_vertical == 2

HasBit(seq, bit) == (seq \div bit) % 2 = 1

tensor_view2(ptr, xs, xl, ys, yl) ==
    [mPtr |-> ptr, mLengths |-> <<xs, xl, ys, yl>>, mSeq |-> access_vertical]
tensor_view1(ptr, s, l) == [mPtr |-> ptr, mLengths |-> <<s, l>>]

\* base_tensor_view::size()
tensor_size(v) ==
    IF Len(v.mLengths) = 2 THEN v.mLengths[2] ELSE v.mLengths[2] * v.mLengths[4]

\* tensor_view<Ty, 2>::iterate_sequence(seq)
iterate_sequence(v, seq) == [v EXCEPT !.mSeq = seq]

\* tensor_view<Ty, 2>::begin() / end()
tensor2_begin(v) ==
    IF v.mSeq = access_horizontal
    THEN tensor_iterator(v.mPtr, v.mLengths[1], <<v.mLengths[3], v.mLengths[4]>>)
    ELSE tensor_iterator(v.mPtr, v.mLengths[3], <<v.mLengths[1], v.mLengths[2]>>)
tensor2_end(v) ==
    IF v.mSeq = access_horizontal
    THEN tensor_iterator_plus(tensor2_begin(v), v.mLengths[2])
    ELSE tensor_iterator_plus(tensor2_begin(v), v.mLengths[4])

\* tensor_view<Ty, 1>::begin() / end()
tensor1_begin(v) == tensor_iterator(v.mPtr, v.mLengths[1], <<>>)
tensor1_end(v) == tensor_iterator_plus(tensor1_begin(v), v.mLengths[2])

\* tensor_view<Ty, 2>::transpose() and transpose(matrix_view)
tensor_transpose(v) ==
    tensor_view2(v.mPtr, v.mLengths[3], v.mLengths[4], v.mLengths[1], v.mLengths[2])
algorithm_transpose(v) ==
    tensor_view2(v.mPtr, v.mLengths[3], v.mLengths[4], v.mLengths[1], v.mLengths[2])

\* tensor_view<Ty, 2>::reverse(seq) and reverse(matrix_view, seq)
tensor_reverse(v, seq) ==
    LET xs == v.mLengths[1]
        xl == v.mLengths[2]
        ys == v.mLengths[3]
        yl == v.mLengths[4]
        p1 == IF HasBit(seq, access_horizontal) THEN v.mPtr + (xs * xl - xs) ELSE v.mPtr
        xs1 == IF HasBit(seq, access_horizontal) THEN -xs ELSE xs
        p2 == IF HasBit(seq, access_vertical) THEN p1 + (ys * yl - ys) ELSE p1
        ys1 == IF HasBit(seq, access_vertical) THEN -ys ELSE ys
    IN  tensor_view2(p2, xs1, xl, ys1, yl)
algorithm_reverse(v, seq) ==
    LET xs == v.mLengths[1]
        xl == v.mLengths[2]
        ys == v.mLengths[3]
        yl == v.mLengths[4]
        p1 == IF HasBit(seq, access_horizontal) THEN v.mPtr + (xs * xl - xs) ELSE v.mPtr
        xs1 == IF HasBit(seq, access_horizontal) THEN -xs ELSE xs
        p2 == IF HasBit(seq, access_vertical) THEN p1 + (ys * yl - ys) ELSE p1
        ys1 == IF HasBit(seq, access_vertical) THEN -ys ELSE ys
    IN  tensor_view2(p2, xs1, xl, ys1, yl)

\* the addresses "for (i = v.begin(); i != v.end(); ++i)
\*                   for (j = i.begin(); j != i.end(); ++j)" dereferences
Tv2Visit(v) ==
    LET b == tensor2_begin(v)
        outer == Walk(b.mPtr, tensor2_end(v).mPtr, b.mFirstStride)
        inner(p) == LET i == tensor_iterator(p, b.mFirstStride, b.mSubRangeInfo)
                    IN  Walk(tensor_iterator_begin(i).mPtr, tensor_iterator_end(i).mPtr,
                             tensor_iterator_begin(i).mFirstStride)
    IN  Flatten([r \in 1..Len(outer) |-> inner(outer[r])])
Tv1Visit(v) == Walk(tensor1_begin(v).mPtr, tensor1_end(v).mPtr, v.mLengths[1])

\* element (x, y) of an order-2 view and element k of an order-1 view
Tv2At(v, x, y) == v.mPtr + x * v.mLengths[1] + y * v.mLengths[3]
Tv1At(v, k) == v.mPtr + k * v.mLengths[1]
Tv2Cells(v) ==
    {Tv2At(v, x, y) : x \in 0..(v.mLengths[2] - 1), y \in 0..(v.mLengths[4] - 1)}
Tv1Cells(v) == {Tv1At(v, k) : k \in 0..(v.mLengths[2] - 1)}
Tv2Valid(v) == \A a \in Tv2Cells(v) : InBuf(a)
Tv1Valid(v) == \A a \in Tv1Cells(v) : InBuf(a)

\* the values an access / access_sequence argument can take: the zero
\* placeholder, one axis, or both bits
AccessValues == 0..(access_horizontal + access_vertical)
SeqOk(seq) == seq \in {access_horizontal, access_vertical}

\* a 2-D view the nested loops can walk inside the buffer
Tv2Iterable(v) == Tv2Valid(v) /\ SeqOk(v.mSeq)

\* tensor_view<Ty, 2>::begin() / end() of src/include/fmath/tensor_view.hpp
\* as a set of outcomes.  For an mSeq that is neither horizontal nor
\* vertical the switch falls to "default: break;" and the function ends
\* without a return statement: the caller gets an iterator of unspecified
\* contents, or the program traps.
UnspecifiedIterators ==
    {tensor_iterator(p, 1, <<1, 1>>) : p \in Offsets}
tensor2_begin_outcomes(v) ==
    IF SeqOk(v.mSeq)
    THEN {[status |-> "iterator", it |-> tensor2_begin(v)]}
    ELSE {[status |-> "iterator", it |-> i] : i \in UnspecifiedIterators}
         \cup {[status |-> "trap"]}
tensor2_end_outcomes(v) ==
    IF SeqOk(v.mSeq)
    THEN {[status |-> "iterator", it |-> tensor2_end(v)]}
    ELSE {[status |-> "iterator", it |-> i] : i \in UnspecifiedIterators}
         \cup {[status |-> "trap"]}

\* tensor_view<Ty, 2>::begin(seq) / end(seq) of
\* src/include/fmath/container/tensor_view.hpp: seq is an argument, and any
\* other value throws std::out_of_range("Unsupported sequence!")
container_tensor2_begin(v, seq) ==
    IF SeqOk(seq)
    THEN [status |-> "iterator", it |-> tensor2_begin(iterate_sequence(v, seq))]
    ELSE [status |-> "out_of_range"]
container_tensor2_end(v, seq) ==
    IF SeqOk(seq)
    THEN [status |-> "iterator", it |-> tensor2_end(iterate_sequence(v, seq))]
    ELSE [status |-> "out_of_range"]

\* basic_matrix<Ty, M, N>::view(): order 2, and order 1 for M = 1 or N = 1
basic_matrix_view2 == tensor_view2(0, 1, shape[2], shape[2], shape[1])
basic_matrix_view1 == tensor_view1(0, 1, shape[1] * shape[2])

\* basic_matrix(const view_type d) of src/include/fmath/basic_matrix.hpp:
\* *p++ = *j over the nested (order 2) or the single (order 1) loop
basic_matrix_from_view2(m, v) ==
    LET a == Tv2Visit(v) IN [k \in 1..Len(a) |-> Elem(m, a[k])]
basic_matrix_from_view1(m, v) ==
    LET a == Tv1Visit(v) IN [k \in 1..Len(a) |-> Elem(m, a[k])]

\* basic_matrix(const view_type d) of src/include/fmath/container/matrix.hpp:
\* std::copy_n(d.data(), d.size(), mData)
container_basic_matrix_from_view(m, v) ==
    [k \in 1..tensor_size(v) |-> Elem(m, v.mPtr + (k - 1))]

\* the functions handed to apply, and the external range of apply(range, f)
UnaryFn(e) == [c \in 1..Len(e) |-> e[c] + 10]
BinaryFn(e, r) == [c \in 1..Len(e) |-> e[c] + 100 * r[c]]
Rng(k) == [c \in 1..esize |-> k]

\* tensor_view<Ty, 1>::apply(f):
\* for (i = 0; i < mLengths[0] * mLengths[1]; i += mLengths[0]) mPtr[i] = f(mPtr[i])
RECURSIVE tensor1_apply_loop(_, _, _)
tensor1_apply_loop(m, v, i) ==
    IF i < v.mLengths[1] * v.mLengths[2]
    THEN tensor1_apply_loop(PutElem(m, v.mPtr + i, UnaryFn(Elem(m, v.mPtr + i))),
                            v, i + v.mLengths[1])
    ELSE m
tensor1_apply(m, v) == tensor1_apply_loop(m, v, 0)

\* tensor_view<Ty, 1>::apply(rg, f): the same loop with *p++ of the range
RECURSIVE tensor1_apply_rg_loop(_, _, _, _)
tensor1_apply_rg_loop(m, v, i, p) ==
    IF i < v.mLengths[1] * v.mLengths[2]
    THEN tensor1_apply_rg_loop(
             PutElem(m, v.mPtr + i, BinaryFn(Elem(m, v.mPtr + i), Rng(p))),
             v, i + v.mLengths[1], p + 1)
    ELSE m
tensor1_apply_rg(m, v) == tensor1_apply_rg_loop(m, v, 0, 1)

\* tensor_view<Ty, 2>::apply(f) and apply(rg, f): *i = f(*i) over the nested loop
RECURSIVE tensor2_apply_loop(_, _, _)
tensor2_apply_loop(m, a, k) ==
    IF k > Len(a) THEN m
    ELSE tensor2_apply_loop(PutElem(m, a[k], UnaryFn(Elem(m, a[k]))), a, k + 1)
tensor2_apply(m, v) == tensor2_apply_loop(m, Tv2Visit(v), 1)

RECURSIVE tensor2_apply_rg_loop(_, _, _)
tensor2_apply_rg_loop(m, a, k) ==
    IF k > Len(a) THEN m
    ELSE tensor2_apply_rg_loop(PutElem(m, a[k], BinaryFn(Elem(m, a[k]), Rng(k))), a, k + 1)
tensor2_apply_rg(m, v) == tensor2_apply_rg_loop(m, Tv2Visit(v), 1)

\* std::copy_n / std::ranges::copy through a tensor_iterator or a
\* vector_iterator. Both declare iterator_concept = contiguous_iterator_tag
\* although their operator++ steps by the stride, so the library may walk
\* the iterator ("elementwise") or move one block at its address ("memmove")
Builds == {"elementwise", "memmove"}
copy_n_step(build, stride) == IF build = "elementwise" THEN stride ELSE 1

\* the range handed to emplace / set is Rng(1), Rng(2), ...; writes happen
\* in this order
RECURSIVE write_range(_, _, _)
write_range(m, addrs, k) ==
    IF k > Len(addrs) THEN m
    ELSE write_range(PutElem(m, addrs[k], Rng(k)), addrs, k + 1)

\* tensor_view<Ty, 1>::emplace(rg) / set(rg):
\* std::copy_n(rg.begin(), size(), begin())
tensor1_emplace_addrs(v, build) ==
    [k \in 1..tensor_size(v) |->
        v.mPtr + (k - 1) * copy_n_step(build, v.mLengths[1])]
tensor1_emplace(m, v, build) == write_range(m, tensor1_emplace_addrs(v, build), 1)

\* tensor_view<Ty, 2>::emplace(rg) / set(rg): q = begin();
\* for (k = rg.begin(); k < rg.end(); k += mLengths[1])
\*     { std::copy_n(k, mLengths[1], q); ++q; }
\* copy_n steps a copy of the outer iterator q
tensor2_emplace_addrs(v, build) ==
    LET q == tensor2_begin(v)
        xl == v.mLengths[2]
    IN  [k \in 1..tensor_size(v) |->
            q.mPtr + ((k - 1) \div xl) * q.mFirstStride
                   + ((k - 1) % xl) * copy_n_step(build, q.mFirstStride)]
tensor2_emplace(m, v, build) == write_range(m, tensor2_emplace_addrs(v, build), 1)

\* the destination of a copy before anything is written to it
DestInit(n) == [k \in 1..n |-> [c \in 1..esize |-> 0]]

\* tensor_view<Ty, 2>::copy(dest):
\* for (i = begin(); i != end(); ++i) { p = std::ranges::copy(i, dest); }
\* every row is copied to dest itself; p is the end of the last copy
RECURSIVE tensor2_copy_rows(_, _, _, _, _, _)
tensor2_copy_rows(m, dest, rows, r, it, build) ==
    IF r > Len(rows) THEN dest
    ELSE LET row == tensor_iterator(rows[r], it.mFirstStride, it.mSubRangeInfo)
             n == (tensor_iterator_end(row).mPtr - tensor_iterator_begin(row).mPtr)
                      \div tensor_iterator_begin(row).mFirstStride
             step == copy_n_step(build, tensor_iterator_begin(row).mFirstStride)
         IN  tensor2_copy_rows(
                 m,
                 [k \in 1..Len(dest) |->
                     IF k <= n THEN Elem(m, rows[r] + (k - 1) * step) ELSE dest[k]],
                 rows, r + 1, it, build)
tensor2_copy(m, v, build) ==
    LET b == tensor2_begin(v)
    IN  [dest |-> tensor2_copy_rows(m, DestInit(tensor_size(v)),
                                    Walk(b.mPtr, tensor2_end(v).mPtr, b.mFirstStride),
                                    1, b, build),
         ret |-> b.mSubRangeInfo[2]]

\* the cells tensor_view<Ty, 2>::copy reads
tensor2_copy_reads(v, build) ==
    LET b == tensor2_begin(v)
        rows == Walk(b.mPtr, tensor2_end(v).mPtr, b.mFirstStride)
    IN  {rows[r] + j * copy_n_step(build, b.mSubRangeInfo[1]) :
            r \in 1..Len(rows), j \in 0..(b.mSubRangeInfo[2] - 1)}

\* copy_view(view, dest): what lands in dest and the returned position
copy_view_to(m, v) == [dest |-> copy_view(m, v), ret |-> Len(MvVisit(v))]

\* operator[](std::ptrdiff_t i) of matrix_view and of base_tensor_view
matrix_view_flat(v, i) == v.mPtr + i
tensor_view_flat(v, i) == v.mPtr + i

\* tensor_view<Ty, 1>::view(off, s, l), and the container's
\* tensor_view<Ty, 1>::subview(off, s, l): the offset is added to the
\* pointer as it is, and the stride of the result is the argument s
tensor1_view(v, off, s, l) == tensor_view1(v.mPtr + off, s, l)

\* tensor_view<Ty, 2>::view(x_off, y_off, w, h), and the container's subview
tensor2_view(v, x_off, y_off, w, h) ==
    tensor_view2(v.mPtr + (v.mLengths[1] * x_off + v.mLengths[3] * y_off),
                 v.mLengths[1], w, v.mLengths[3], h)

\* basic_matrix<Ty, M, N>::begin(): order 1 for a vector layout, else order 2
basic_matrix_begin ==
    IF shape[1] = 1 \/ shape[2] = 1
    THEN tensor_iterator(0, 1, <<>>)
    ELSE tensor_iterator(0, shape[2], <<1, shape[2]>>)

---------------------------------------------------------------------------
\* which containers exist: a force::vector is one row of elements
KindFits(k, sh, es) ==
    CASE k = "matrix_view" -> TRUE
      [] k = "vector_view" -> sh[1] = 1 /\ es = 1
      [] k = "vector_iterator" -> sh[1] = 1 /\ es = 1
      [] k = "tensor_view2" -> sh[1] # 1 /\ sh[2] # 1
      [] k = "tensor_view1" -> (sh[1] = 1 \/ sh[2] = 1) /\ es = 1
      [] k = "tensor_iterator" -> es = 1 /\ sh \in {<<1, 4>>, <<2, 2>>}

Kinds ==
    {"matrix_view", "vector_view", "vector_iterator",
     "tensor_view2", "tensor_view1", "tensor_iterator"}

\* the view or iterator the container hands out
InitView ==
    CASE kind = "matrix_view" -> matrix_to_view
      [] kind = "vector_view" -> vector_to_view
      [] kind = "vector_iterator" -> vector_begin
      [] kind = "tensor_view2" -> basic_matrix_view2
      [] kind = "tensor_view1" -> basic_matrix_view1
      [] kind = "tensor_iterator" -> basic_matrix_begin

Init ==
    /\ \E k \in Kinds, sc \in Scenarios :
          /\ KindFits(k, sc[1], sc[2])
          /\ kind = k
          /\ shape = sc[1]
          /\ esize = sc[2]
    /\ mem = InitMem(shape[1], shape[2], esize)
    /\ view = InitView
    /\ src = view
    /\ op = "init"
    /\ arg = <<>>
    /\ acc = NoAcc
    /\ nops = 0

\* faulty variant of a transformation: it stores through the view
Transform_writes(k, name, a, from, new) ==
    /\ kind = k
    /\ nops < MaxOps
    /\ view' = new
    /\ src' = from
    /\ op' = name
    /\ arg' = a
    /\ acc' = NoAcc
    /\ nops' = nops + 1
    /\ mem' = [c \in DOMAIN mem |-> IF c < esize THEN 0 ELSE mem[c]]
    /\ UNCHANGED <<kind, shape, esize>>

\* a transformation replaces the view under test by a new view value; at
\* most MaxOps operations are applied to a view, and one that writes the
\* buffer is the last of them
Transform(k, name, a, from, new) ==
    /\ kind = k
    /\ nops < MaxOps
    /\ view' = new
    /\ src' = from
    /\ op' = name
    /\ arg' = a
    /\ acc' = NoAcc
    /\ nops' = nops + 1
    /\ UNCHANGED <<kind, shape, esize, mem>>

\* matrix_view(p, x, y, w, h, dy, dx) over the container's storage; the
\* caller supplies lengths and strides that stay inside the buffer
MakeMatrixView ==
    \E x \in Offsets, y \in Offsets, w \in Dims, h \in Dims,
       dy \in Strides, dx \in Strides :
        LET new == matrix_view(0, x, y, w, h, dy, dx) IN
        /\ kind = "matrix_view"
        /\ op = "init"
        /\ nops = 0
        /\ MvValid(new)
        /\ view' = new
        /\ src' = new
        /\ op' = "matrix_view"
        /\ arg' = <<x, y, w, h, dy, dx>>
        /\ acc' = NoAcc
        /\ UNCHANGED <<kind, shape, esize, mem, nops>>

\* matrix::view(x, y, w, h)
MatrixView ==
    \E x \in Offsets, y \in Offsets, w \in Dims, h \in Dims :
        /\ kind = "matrix_view"
        /\ op = "init"
        /\ nops = 0
        /\ x + w <= shape[2]
        /\ y + h <= shape[1]
        /\ view' = matrix_view_xywh(x, y, w, h)
        /\ src' = matrix_to_view
        /\ op' = "matrix::view(x,y,w,h)"
        /\ arg' = <<x, y, w, h>>
        /\ acc' = NoAcc
        /\ UNCHANGED <<kind, shape, esize, mem, nops>>

\* matrix_view::view(tx, ty, w, h)
MatrixViewView ==
    \E tx \in Offsets, ty \in Offsets, w \in Dims, h \in Dims :
        /\ kind = "matrix_view"
        /\ tx + w <= view.mWidth
        /\ ty + h <= view.mHeight
        /\ Transform("matrix_view", "matrix_view::view", <<tx, ty, w, h>>,
                     view, matrix_view_view(view, tx, ty, w, h))

TransposeView ==
    Transform("matrix_view", "transpose_view", <<>>, view, transpose_view(view))
ReverseRowView ==
    Transform("matrix_view", "reverse_row_view", <<>>, view, reverse_row_view(view))
ReverseColView ==
    Transform("matrix_view", "reverse_col_view", <<>>, view, reverse_col_view(view))

RotateViewHalfPi ==
    Transform("matrix_view", "rotate_view_half_pi", <<>>, view, rotate_view_half_pi(view))
RotateViewNegHalfPi ==
    Transform("matrix_view", "rotate_view_neg_half_pi", <<>>, view,
              rotate_view_neg_half_pi(view))
RotateViewPi ==
    Transform("matrix_view", "rotate_view_pi", <<>>, view, rotate_view_pi(view))

\* v[point(x, y)] = val through the view under test ("view") or through the
\* view it was derived from ("src"), which is still alive
WriteVal == [c \in 1..esize |-> 0]
MatrixViewWrite ==
    \E who \in {"view", "src"}, x \in 0..3, y \in 0..3 :
        LET v == IF who = "view" THEN view ELSE src IN
        /\ kind = "matrix_view"
        /\ nops < MaxOps
        /\ x < v.mWidth
        /\ y < v.mHeight
        /\ InBuf(MvAt(v, x, y))
        /\ mem' = PutElem(mem, MvAt(v, x, y), WriteVal)
        /\ acc' = [what |-> "write", who |-> who, x |-> x, y |-> y, val |-> WriteVal]
        /\ nops' = MaxOps
        /\ UNCHANGED <<kind, shape, esize, view, src, op, arg>>

\* matrix<Ty, H, W> m(view): a new container built from the view under test
MatrixFromView ==
    /\ kind = "matrix_view"
    /\ MvValid(view)
    /\ acc' = [what |-> "matrix", mData |-> matrix_from_view(mem, view)]
    /\ UNCHANGED <<kind, shape, esize, mem, view, src, op, arg, nops>>

\* for_each_view(view, fi, fo): the elements handed to fi, in call order
ForEachView ==
    /\ kind = "matrix_view"
    /\ MvValid(view)
    /\ acc' = [what |-> "for_each_view", seen |-> for_each_view(mem, view),
               calls |-> for_each_view_calls(view)]
    /\ UNCHANGED <<kind, shape, esize, mem, view, src, op, arg, nops>>

\* vector_view(beg, x, l, d) with beg a pointer into the container
MakeVectorView ==
    \E beg \in 0..(MaxDim * MaxStride), x \in Offsets, l \in Dims,
       d \in (-MaxStride)..MaxStride :
        LET new == vector_view(beg, x, l, d) IN
        /\ kind = "vector_view"
        /\ op = "init"
        /\ nops = 0
        /\ d # 0
        /\ InBuf(beg)
        /\ VvValid(new)
        /\ view' = new
        /\ src' = new
        /\ op' = "vector_view"
        /\ arg' = <<beg, x, l, d>>
        /\ acc' = NoAcc
        /\ UNCHANGED <<kind, shape, esize, mem, nops>>

\* vector_view::view(t, l)
VectorViewView ==
    \E t \in Offsets, l \in Dims :
        /\ kind = "vector_view"
        /\ t + l <= view.mLength
        /\ Transform("vector_view", "vector_view::view", <<t, l>>,
                     view, vector_view_view(view, t, l))

ReverseView ==
    Transform("vector_view", "reverse_view", <<>>, view, reverse_view(view))

\* vector<Ty, L> v(view) / v = view
VectorFromView ==
    /\ kind = "vector_view"
    /\ VvValid(view)
    /\ acc' = [what |-> "vector", mData |-> vector_from_view(mem, view)]
    /\ UNCHANGED <<kind, shape, esize, mem, view, src, op, arg, nops>>

\* vector_iterator(beg, s): an iterator of any nonzero stride
MakeVectorIterator ==
    \E beg \in 0..(MaxDim * MaxStride), s \in (-MaxStride)..MaxStride :
        /\ kind = "vector_iterator"
        /\ op = "init"
        /\ nops = 0
        /\ s # 0
        /\ InBuf(beg)
        /\ view' = [mPtr |-> beg, mDelta |-> s]
        /\ src' = view'
        /\ op' = "vector_iterator"
        /\ arg' = <<beg, s>>
        /\ acc' = NoAcc
        /\ UNCHANGED <<kind, shape, esize, mem, nops>>

\* it + k
VectorIteratorPlus ==
    \E k \in (-MaxDim)..MaxDim :
        Transform("vector_iterator", "operator+", k, view, vector_iterator_plus(view, k))

\* ++it and --it
VectorIteratorInc ==
    Transform("vector_iterator", "operator++", <<>>, view, vector_iterator_inc(view))
VectorIteratorDec ==
    Transform("vector_iterator", "operator--", <<>>, view, vector_iterator_dec(view))

\* it[k]: the address of the element the reference names
VectorIteratorIndex ==
    \E k \in (-MaxDim)..MaxDim :
        /\ kind = "vector_iterator"
        /\ acc' = [what |-> "operator[]", k |-> k, addr |-> vector_iterator_index(view, k)]
        /\ UNCHANGED <<kind, shape, esize, mem, view, src, op, arg, nops>>

\* tensor_view<Ty, 2>(ptr, xs, xl, ys, yl) over the container's storage
MakeTensorView2 ==
    \E ptr \in Offsets, xl \in Dims, yl \in Dims, xs \in Strides, ys \in Strides :
        LET new == tensor_view2(ptr, xs, xl, ys, yl) IN
        /\ kind = "tensor_view2"
        /\ op = "init"
        /\ nops = 0
        /\ Tv2Valid(new)
        /\ view' = new
        /\ src' = new
        /\ op' = "tensor_view"
        /\ arg' = <<ptr, xs, xl, ys, yl>>
        /\ acc' = NoAcc
        /\ UNCHANGED <<kind, shape, esize, mem, nops>>

\* tensor_view<Ty, 1>(ptr, s, l) with any nonzero stride
MakeTensorView1 ==
    \E ptr \in 0..(MaxDim * MaxStride), l \in Dims, s \in (-MaxStride)..MaxStride :
        LET new == tensor_view1(ptr, s, l) IN
        /\ kind = "tensor_view1"
        /\ op = "init"
        /\ nops = 0
        /\ s # 0
        /\ Tv1Valid(new)
        /\ view' = new
        /\ src' = new
        /\ op' = "tensor_view"
        /\ arg' = <<ptr, s, l>>
        /\ acc' = NoAcc
        /\ UNCHANGED <<kind, shape, esize, mem, nops>>

IterateSequence ==
    \E seq \in AccessValues :
        /\ kind = "tensor_view2"
        /\ nops < MaxOps
        /\ view' = iterate_sequence(view, seq)
        /\ src' = view
        /\ op' = "iterate_sequence"
        /\ arg' = seq
        /\ acc' = NoAcc
        /\ nops' = IF SeqOk(seq) THEN nops + 1 ELSE MaxOps
        /\ UNCHANGED <<kind, shape, esize, mem>>

TensorTranspose ==
    Transform("tensor_view2", "tensor_view::transpose", <<>>, view, tensor_transpose(view))
AlgorithmTranspose ==
    Transform("tensor_view2", "transpose", <<>>, view, algorithm_transpose(view))
TensorReverse ==
    \E seq \in 0..3 :
        Transform("tensor_view2", "tensor_view::reverse", seq, view, tensor_reverse(view, seq))
AlgorithmReverse ==
    \E seq \in 0..3 :
        Transform("tensor_view2", "reverse", seq, view, algorithm_reverse(view, seq))

\* basic_matrix<Ty, M, N> b(view), both implementations; the container
\* version is run where its linear read stays inside the buffer
BasicMatrixFromView ==
    /\ kind \in {"tensor_view2", "tensor_view1"}
    /\ IF kind = "tensor_view2" THEN Tv2Iterable(view) ELSE Tv1Valid(view)
    /\ acc' = [what |-> "basic_matrix",
               mData |-> IF kind = "tensor_view2"
                         THEN basic_matrix_from_view2(mem, view)
                         ELSE basic_matrix_from_view1(mem, view)]
    /\ UNCHANGED <<kind, shape, esize, mem, view, src, op, arg, nops>>

ContainerBasicMatrixFromView ==
    /\ kind \in {"tensor_view2", "tensor_view1"}
    /\ IF kind = "tensor_view2" THEN Tv2Valid(view) ELSE Tv1Valid(view)
    /\ \A k \in 0..(tensor_size(view) - 1) : InBuf(view.mPtr + k)
    /\ acc' = [what |-> "container::basic_matrix",
               mData |-> container_basic_matrix_from_view(mem, view)]
    /\ UNCHANGED <<kind, shape, esize, mem, view, src, op, arg, nops>>

\* v.apply(f) and v.apply(rg, f)
TensorApply ==
    \E withRng \in BOOLEAN :
        /\ kind \in {"tensor_view2", "tensor_view1"}
        /\ nops < MaxOps
        /\ IF kind = "tensor_view2" THEN Tv2Iterable(view) ELSE Tv1Valid(view)
        /\ mem' = CASE kind = "tensor_view2" /\ withRng -> tensor2_apply_rg(mem, view)
                     [] kind = "tensor_view2" /\ ~withRng -> tensor2_apply(mem, view)
                     [] kind = "tensor_view1" /\ withRng -> tensor1_apply_rg(mem, view)
                     [] kind = "tensor_view1" /\ ~withRng -> tensor1_apply(mem, view)
        /\ acc' = [what |-> "apply", rg |-> withRng, before |-> mem]
        /\ nops' = MaxOps
        /\ UNCHANGED <<kind, shape, esize, view, src, op, arg>>

\* v.emplace(rg) / v.set(rg) with a range of size() elements, run where
\* every write stays inside the buffer
TensorEmplace ==
    \E build \in Builds :
        LET addrs == IF kind = "tensor_view2"
                     THEN tensor2_emplace_addrs(view, build)
                     ELSE tensor1_emplace_addrs(view, build) IN
        /\ kind \in {"tensor_view2", "tensor_view1"}
        /\ nops < MaxOps
        /\ IF kind = "tensor_view2" THEN Tv2Iterable(view) ELSE Tv1Valid(view)
        /\ \A k \in 1..Len(addrs) : InBuf(addrs[k])
        /\ mem' = IF kind = "tensor_view2"
                  THEN tensor2_emplace(mem, view, build)
                  ELSE tensor1_emplace(mem, view, build)
        /\ acc' = [what |-> "emplace", build |-> build, before |-> mem]
        /\ nops' = MaxOps
        /\ UNCHANGED <<kind, shape, esize, view, src, op, arg>>

\* p = v.copy(dest) of a 2-D tensor view, and p = copy_view(view, dest)
TensorCopy ==
    \E build \in Builds :
        /\ kind = "tensor_view2"
        /\ Tv2Iterable(view)
        /\ \A a \in tensor2_copy_reads(view, build) : InBuf(a)
        /\ acc' = [what |-> "copy", build |-> build] @@ tensor2_copy(mem, view, build)
        /\ UNCHANGED <<kind, shape, esize, mem, view, src, op, arg, nops>>

CopyView ==
    /\ kind = "matrix_view"
    /\ MvValid(view)
    /\ acc' = [what |-> "copy", build |-> "elementwise"] @@ copy_view_to(mem, view)
    /\ UNCHANGED <<kind, shape, esize, mem, view, src, op, arg, nops>>

\* view *= s and view /= s
VectorViewScale ==
    \E opn \in {"*=", "/="}, s \in Scalars :
        /\ kind = "vector_view"
        /\ nops < MaxOps
        /\ VvValid(view)
        /\ \A k \in 1..view.mLength : InBuf(vector_view_scale_addrs(view)[k])
        /\ mem' = vector_view_scale(mem, view, opn, s)
        /\ acc' = [what |-> "scale", opn |-> opn, s |-> s, before |-> mem, self |-> view]
        /\ nops' = MaxOps
        /\ UNCHANGED <<kind, shape, esize, view, src, op, arg>>

MatrixViewScale ==
    \E opn \in {"*=", "/="}, s \in Scalars :
        /\ kind = "matrix_view"
        /\ nops < MaxOps
        /\ MvValid(view)
        /\ mem' = matrix_view_scale(mem, view, opn, s)
        /\ acc' = [what |-> "scale", opn |-> opn, s |-> s, before |-> mem, self |-> view]
        /\ nops' = MaxOps
        /\ UNCHANGED <<kind, shape, esize, view, src, op, arg>>

\* the setters act on the view (iterator) under test itself: src keeps the
\* value the object had before the call
VectorViewSetDelta ==
    \E d \in (-MaxStride)..MaxStride :
        /\ d # 0
        /\ Transform("vector_view", "vector_view::delta", d, view,
                     vector_view_set_delta(view, d))
VectorViewSetLength ==
    \E l \in Dims :
        Transform("vector_view", "vector_view::length", l, view,
                  vector_view_set_length(view, l))
VectorIteratorSetStride ==
    \E d \in (-MaxStride)..MaxStride :
        /\ d # 0
        /\ Transform("vector_iterator", "vector_iterator::stride", d, view,
                     vector_iterator_set_stride(view, d))

\* view[k] with a flat index: the address of the element returned
ViewFlatIndex ==
    \E k \in Offsets :
        /\ kind \in {"vector_view", "matrix_view", "tensor_view1", "tensor_view2"}
        /\ acc' = [what |-> "flat[]", k |-> k,
                   addr |-> CASE kind = "vector_view" -> VvAt(view, k)
                              [] kind = "matrix_view" -> matrix_view_flat(view, k)
                              [] OTHER -> tensor_view_flat(view, k)]
        /\ UNCHANGED <<kind, shape, esize, mem, view, src, op, arg, nops>>

\* v.begin() / v.end() of a 2-D tensor view with its current mSeq, and
\* v.begin(seq) / v.end(seq) of the container's tensor view, which stores
\* no sequence of its own and is asked as it was constructed
TensorBegin ==
    /\ kind = "tensor_view2"
    /\ \E fn \in {"begin", "end"} :
        \E r \in IF fn = "begin" THEN tensor2_begin_outcomes(view)
                 ELSE tensor2_end_outcomes(view) :
            /\ acc' = [what |-> fn, impl |-> "tensor_view", seq |-> view.mSeq, result |-> r]
            /\ UNCHANGED <<kind, shape, esize, mem, view, src, op, arg, nops>>

ContainerTensorBegin ==
    \E fn \in {"begin", "end"}, seq \in AccessValues :
        /\ kind = "tensor_view2"
        /\ nops = 0
        /\ acc' = [what |-> fn, impl |-> "container::tensor_view", seq |-> seq,
                   result |-> IF fn = "begin" THEN container_tensor2_begin(view, seq)
                              ELSE container_tensor2_end(view, seq)]
        /\ UNCHANGED <<kind, shape, esize, mem, view, src, op, arg, nops>>

\* v.view(off, s, l) of a 1-D tensor view, for a window of l elements that
\* starts at the parent's element off
TensorView1View ==
    \E off \in Offsets, s \in (-MaxStride)..MaxStride, l \in Dims :
        /\ s # 0
        /\ kind = "tensor_view1"
        /\ off + l <= view.mLengths[2]
        /\ Tv1Valid(tensor1_view(view, off, s, l))
        /\ Transform("tensor_view1", "tensor_view::view", <<off, s, l>>, view,
                     tensor1_view(view, off, s, l))

\* v.view(x_off, y_off, w, h) of a 2-D tensor view, for a window inside it
TensorView2View ==
    \E x_off \in Offsets, y_off \in Offsets, w \in Dims, h \in Dims :
        /\ kind = "tensor_view2"
        /\ x_off + w <= view.mLengths[2]
        /\ y_off + h <= view.mLengths[4]
        /\ Transform("tensor_view2", "tensor_view::view", <<x_off, y_off, w, h>>, view,
                     tensor2_view(view, x_off, y_off, w, h))

\* tensor_iterator(beg, s) of order 1 with any nonzero stride
MakeTensorIterator ==
    \E beg \in 0..(MaxDim * MaxStride), s \in (-MaxStride)..MaxStride :
        /\ kind = "tensor_iterator"
        /\ op = "init"
        /\ nops = 0
        /\ s # 0
        /\ InBuf(beg)
        /\ view' = tensor_iterator(beg, s, <<>>)
        /\ src' = view'
        /\ op' = "tensor_iterator"
        /\ arg' = <<beg, s>>
        /\ acc' = NoAcc
        /\ UNCHANGED <<kind, shape, esize, mem, nops>>

TensorIteratorPlus ==
    \E k \in (-MaxDim)..MaxDim :
        Transform("tensor_iterator", "operator+", k, view, tensor_iterator_plus(view, k))
TensorIteratorInc ==
    Transform("tensor_iterator", "operator++", <<>>, view, tensor_iterator_inc(view))
TensorIteratorDec ==
    Transform("tensor_iterator", "operator--", <<>>, view, tensor_iterator_dec(view))
TensorIteratorIndex ==
    \E k \in (-MaxDim)..MaxDim :
        /\ kind = "tensor_iterator"
        /\ acc' = [what |-> "operator[]", k |-> k, addr |-> tensor_iterator_index(view, k)]
        /\ UNCHANGED <<kind, shape, esize, mem, view, src, op, arg, nops>>

Next ==
    \/ MakeMatrixView
    \/ MatrixView
    \/ MatrixViewView
    \/ TransposeView
    \/ ReverseRowView
    \/ ReverseColView
    \/ MatrixViewWrite
    \/ MatrixFromView
    \/ ForEachView
    \/ MakeVectorView
    \/ VectorViewView
    \/ ReverseView
    \/ VectorFromView
    \/ MakeVectorIterator
    \/ VectorIteratorPlus
    \/ VectorIteratorInc
    \/ VectorIteratorDec
    \/ VectorIteratorIndex
    \/ MakeTensorView2
    \/ MakeTensorView1
    \/ IterateSequence
    \/ TensorTranspose
    \/ AlgorithmTranspose
    \/ TensorReverse
    \/ AlgorithmReverse
    \/ BasicMatrixFromView
    \/ ContainerBasicMatrixFromView
    \/ TensorApply
    \/ TensorEmplace
    \/ TensorCopy
    \/ CopyView
    \/ VectorViewScale
    \/ MatrixViewScale
    \/ VectorViewSetDelta
    \/ VectorViewSetLength
    \/ VectorIteratorSetStride
    \/ ViewFlatIndex
    \/ RotateViewHalfPi
    \/ RotateViewNegHalfPi
    \/ RotateViewPi
    \/ TensorBegin
    \/ ContainerTensorBegin
    \/ TensorView1View
    \/ TensorView2View
    \/ MakeTensorIterator
    \/ TensorIteratorPlus
    \/ TensorIteratorInc
    \/ TensorIteratorDec
    \/ TensorIteratorIndex

Spec == Init /\ [][Next]_vars

----------------------------------------------------------------------------
\* A second specification, over the same variables, for the operations on
\* views of any size (empty ones included) and on whole containers.

\* lengths a view can be given, zero included
Sizes == 0..MaxDim

\* matrix_view(p, x, y, w, h, dy, dx) over the container's storage, of any
\* width and height
MakeSizedMatrixView ==
    \E x \in Offsets, y \in Offsets, w \in Sizes, h \in Sizes,
       dy \in Strides, dx \in Strides :
        LET new == matrix_view(0, x, y, w, h, dy, dx) IN
        /\ kind = "matrix_view"
        /\ op = "init"
        /\ nops = 0
        /\ MvValid(new)
        /\ view' = new
        /\ src' = new
        /\ op' = "matrix_view"
        /\ arg' = <<x, y, w, h, dy, dx>>
        /\ acc' = NoAcc
        /\ UNCHANGED <<kind, shape, esize, mem, nops>>

\* force::media::io::image_bmp (src/include/force/media/io_image_bmp.hpp)

\* the depths the codec supports
Depths == {8, 16, 24, 32}

\* make_image_variant_interleaved_view<V>(data, w, h, rowsize) with
\* data of type Pix*: the variant holds image_interleaved_view<Pix>
make_image_variant_interleaved_view(pix, w, h, rowsize) ==
    [alt |-> pix, mv |-> matrix_view(0, 0, 0, w, h, rowsize, 1)]

\* image_bmp bmp; before any member is assigned: the variant holds its
\* first alternative
default_image_bmp ==
    [view |-> make_image_variant_interleaved_view("grey_u8_pixel_t", 0, 0, 0),
     padding |-> 0, depth |-> 0]

\* make_image_bmp_from_raw(ptr, w, h, depth); padding is a std::uint8_t
make_image_bmp_from_raw(w, h, depth) ==
    CASE depth \div 8 = 1 ->
            [view |-> make_image_variant_interleaved_view("grey_u8_pixel_t", w, h, w),
             padding |-> IF w % 4 = 0 THEN 0 ELSE (4 - w) % 4,
             depth |-> depth]
      [] depth \div 8 = 2 ->
            [view |-> make_image_variant_interleaved_view("bgr565_u16_pixel_t", w, h, w),
             padding |-> IF w % 2 = 0 THEN 0 ELSE 2,
             depth |-> depth]
      [] depth \div 8 = 3 ->
            [view |-> make_image_variant_interleaved_view("bgr888_u8_pixel_t", w, h, w),
             padding |-> w % 4,
             depth |-> depth]
      [] depth \div 8 = 4 ->
            [view |-> make_image_variant_interleaved_view("bgr888_u8_pixel_t", w, h, w),
             padding |-> 0,
             depth |-> depth]
      [] OTHER -> [default_image_bmp EXCEPT !.padding = 255, !.depth = depth]

\* image_variant_interleaved_view::get<Ty>(): std::get on the variant
image_variant_get(v, pix) ==
    IF v.alt = pix THEN [status |-> "view", mv |-> v.mv]
    ELSE [status |-> "bad_variant_access"]

\* visit_image_bmp_interleaved_view(view, depth, f) for a supported depth:
\* what f is invoked with, or the exception that leaves the function
visit_image_bmp_interleaved_view(v, depth) ==
    CASE depth \div 8 = 1 -> image_variant_get(v, "grey_u8_pixel_t")
      [] depth \div 8 = 2 -> image_variant_get(v, "bgr565_u16_pixel_t")
      [] depth \div 8 = 3 -> image_variant_get(v, "bgr888_u8_pixel_t")
      [] depth \div 8 = 4 -> image_variant_get(v, "bgra8888_u8_pixel_t")

\* visit_image_bmp(bmp, f)
visit_image_bmp(bmp) == visit_image_bmp_interleaved_view(bmp.view, bmp.depth)

\* make_image_bmp_from_raw(ptr, w, h, depth) over the raw buffer
MakeImageBmpFromRaw ==
    \E w \in Dims, h \in Dims, depth \in Depths :
        /\ kind = "image_bmp"
        /\ op = "init"
        /\ nops = 0
        /\ view' = make_image_bmp_from_raw(w, h, depth)
        /\ src' = view
        /\ op' = "make_image_bmp_from_raw"
        /\ arg' = <<w, h, depth>>
        /\ acc' = NoAcc
        /\ UNCHANGED <<kind, shape, esize, mem, nops>>

\* visit_image_bmp(bmp, f), as image_bmp_byte_size and
\* write_image_bmp_to_stream call it
VisitImageBmp ==
    \E caller \in {"visit_image_bmp", "image_bmp_byte_size", "write_image_bmp_to_stream"} :
        /\ kind = "image_bmp"
        /\ op = "make_image_bmp_from_raw"
        /\ acc' = [what |-> "visit", caller |-> caller, result |-> visit_image_bmp(view)]
        /\ UNCHANGED <<kind, shape, esize, mem, view, src, op, arg, nops>>

\* "for (i = v.begin(); i != v.end(); ++i)
\*      for (j = i.begin(); j != i.end(); ++j) use(*j);" over a 2-D tensor view
TensorTraverse ==
    /\ kind = "tensor_view2"
    /\ Tv2Iterable(view)
    /\ acc' = [what |-> "traverse", visited |-> Tv2Visit(view)]
    /\ UNCHANGED <<kind, shape, esize, mem, view, src, op, arg, nops>>

\* force::matrix<Ty, M, N> (src/include/force/matrix.hpp): mData is the
\* buffer mem, M = shape[1] rows of N = shape[2] elements

\* matrix::row_at(i) = row_view(mData, i * N, N) and
\* matrix::col_at(i) = col_view(mData, i, M, N)
matrix_row_at(i) == vector_view(0, i * shape[2], shape[2], 1)
matrix_col_at(i) == vector_view(0, i, shape[1], shape[2])

\* m.row_at(i) and m.col_at(i) for a row or column of the matrix, next to
\* the same call on m.view()
MatrixRowAt ==
    \E i \in 0..3 :
        /\ kind = "matrix"
        /\ i < shape[1]
        /\ acc' = [what |-> "row_at", i |-> i, result |-> matrix_row_at(i),
                   of_view |-> matrix_view_row_at(matrix_to_view, i)]
        /\ UNCHANGED <<kind, shape, esize, mem, view, src, op, arg, nops>>

MatrixColAt ==
    \E i \in 0..3 :
        /\ kind = "matrix"
        /\ i < shape[2]
        /\ acc' = [what |-> "col_at", i |-> i, result |-> matrix_col_at(i),
                   of_view |-> matrix_view_col_at(matrix_to_view, i)]
        /\ UNCHANGED <<kind, shape, esize, mem, view, src, op, arg, nops>>

\* back() of the owning containers over the M * N (or N) cells of mem:
\* force::matrix returns mData[num_elements], force::vector returns
\* mData[num_dimensions], base_matrix returns mData[size() - 1]
matrix_back == shape[1] * shape[2]
vector_back == shape[2]
base_matrix_back == shape[1] * shape[2] - 1

\* vector_view::end() and vector_view::back() = *end()
vector_view_end(v) == vector_iterator_plus(vector_view_begin(v), v.mLength)
vector_view_back(v) == vector_view_end(v).mPtr

\* c.back() on an owning container: a force::vector only for a one-row shape
ContainerBack ==
    \E impl \in {"force::matrix", "force::vector", "base_matrix"} :
        /\ kind = "matrix"
        /\ impl = "force::vector" => shape[1] = 1
        /\ acc' = [what |-> "back", impl |-> impl,
                   addr |-> CASE impl = "force::matrix" -> matrix_back
                              [] impl = "force::vector" -> vector_back
                              [] impl = "base_matrix" -> base_matrix_back]
        /\ UNCHANGED <<kind, shape, esize, mem, view, src, op, arg, nops>>

\* v.back() on a non-empty vector_view
VectorViewBack ==
    /\ kind = "vector_view"
    /\ view.mLength > 0
    /\ acc' = [what |-> "back", impl |-> "vector_view", addr |-> vector_view_back(view)]
    /\ UNCHANGED <<kind, shape, esize, mem, view, src, op, arg, nops>>

\* det(mat) of an M x M matrix: the cells of the upper factor u that
\* std::reduce(iter, iter + M, Ty(1), mul) multiplies, with
\* vector_iterator<Ty> iter(u.data(), 5)
det_reads ==
    LET iter == [mPtr |-> 0, mDelta |-> 5]
    IN  Walk(iter.mPtr, vector_iterator_plus(iter, shape[1]).mPtr, iter.mDelta)

\* det(m) of a square matrix; the upper factor has the shape of m
Det ==
    \E impl \in {"force::matrix", "basic_matrix"} :
        /\ kind = "matrix"
        /\ shape[1] = shape[2]
        /\ acc' = [what |-> "det", impl |-> impl, reads |-> det_reads]
        /\ UNCHANGED <<kind, shape, esize, mem, view, src, op, arg, nops>>

\* vector_view::operator+=, -=, *=, /= (const vector_view v): each of the
\* four bodies is "for (i = 0; i != length(); ++i) { mPtr[i] += v[i]; }"
CompoundOps == {"+=", "-=", "*=", "/="}
compound_element(opn, a, b) == [c \in 1..Len(a) |-> a[c] + b[c]]

RECURSIVE vector_view_compound(_, _, _, _, _)
vector_view_compound(m, v, w, opn, i) ==
    IF i = v.mLength THEN m
    ELSE vector_view_compound(
             PutElem(m, v.mPtr + i,
                     compound_element(opn, Elem(m, v.mPtr + i), Elem(m, VvAt(w, i)))),
             v, w, opn, i + 1)

\* view opn= w for a second view w of the same length over the same storage
VectorViewCompound ==
    \E opn \in CompoundOps, wbeg \in 0..(MaxDim * MaxStride),
       wd \in (-MaxStride)..MaxStride :
        LET w == vector_view(wbeg, 0, view.mLength, wd) IN
        /\ kind = "vector_view"
        /\ nops < MaxOps
        /\ wd # 0
        /\ VvValid(view)
        /\ VvValid(w)
        /\ \A i \in 0..(view.mLength - 1) : InBuf(view.mPtr + i)
        /\ mem' = vector_view_compound(mem, view, w, opn, 0)
        /\ acc' = [what |-> "compound", opn |-> opn, w |-> w, before |-> mem]
        /\ nops' = MaxOps
        /\ UNCHANGED <<kind, shape, esize, view, src, op, arg>>

\* vector_view::operator==(const vector_view&): std::ranges::equal(*this,
\* other) compares the lengths, then the elements; the iterators declare
\* themselves contiguous, so a build may compare the raw cells instead of
\* stepping by the delta
vector_view_equal_addr(build, v, k) == v.mPtr + k * copy_n_step(build, v.mDelta)
vector_view_equal(m, build, v, w) ==
    /\ v.mLength = w.mLength
    /\ \A k \in 0..(v.mLength - 1) :
           Elem(m, vector_view_equal_addr(build, v, k)) =
               Elem(m, vector_view_equal_addr(build, w, k))

\* matrix_view::operator==(const matrix_view& view): for (i = 0; i !=
\* mHeight; ++i) if (row_at(i) != view.row_at(i)) return false; return true
matrix_view_equal(m, build, a, b) ==
    \A i \in 0..(a.mHeight - 1) :
        vector_view_equal(m, build, matrix_view_row_at(a, i), matrix_view_row_at(b, i))

\* the cells a == b reads
matrix_view_equal_reads(build, a, b) ==
    UNION {IF matrix_view_row_at(a, i).mLength # matrix_view_row_at(b, i).mLength
           THEN {}
           ELSE {vector_view_equal_addr(build, matrix_view_row_at(a, i), k) :
                     k \in 0..(a.mWidth - 1)}
                \cup {vector_view_equal_addr(build, matrix_view_row_at(b, i), k) :
                          k \in 0..(a.mWidth - 1)}
           : i \in 0..(a.mHeight - 1)}

\* a == b and b == a for the view under test a, as constructed, and a
\* window b of the same container, where both comparisons read the storage
MatrixViewEqual ==
    \E x \in Offsets, w \in Sizes, h \in Sizes, build \in Builds :
        LET b == matrix_view(0, x, 0, w, h, shape[2], 1) IN
        /\ kind = "matrix_view"
        /\ nops = 0
        /\ op = "matrix_view"
        /\ MvValid(view)
        /\ MvValid(b)
        /\ \A p \in matrix_view_equal_reads(build, view, b)
                    \cup matrix_view_equal_reads(build, b, view) : InBuf(p)
        /\ acc' = [what |-> "==", b |-> b, build |-> build,
                   ab |-> matrix_view_equal(mem, build, view, b),
                   ba |-> matrix_view_equal(mem, build, b, view)]
        /\ UNCHANGED <<kind, shape, esize, mem, view, src, op, arg, nops>>

Kinds2 ==
    {"matrix_view", "image_bmp", "tensor_view2",
     "tensor_iterator", "matrix", "vector_view"}

KindFits2(k, sh, es) ==
    CASE k = "matrix_view" -> TRUE
      [] k = "image_bmp" -> sh = <<4, 4>> /\ es = 1
      [] k = "tensor_view2" -> sh[1] # 1 /\ sh[2] # 1 /\ es = 1
      [] k = "tensor_iterator" -> sh = <<2, 2>> /\ es = 1
      [] k = "matrix" -> TRUE
      [] k = "vector_view" -> sh[1] = 1 /\ es = 1

InitView2 ==
    CASE kind = "matrix_view" -> matrix_to_view
      [] kind = "image_bmp" -> default_image_bmp
      [] kind = "tensor_view2" -> basic_matrix_view2
      [] kind = "tensor_iterator" -> basic_matrix_begin
      [] kind = "matrix" -> matrix_to_view
      [] kind = "vector_view" -> vector_to_view

Init2 ==
    /\ \E k \in Kinds2, sc \in Scenarios :
          /\ KindFits2(k, sc[1], sc[2])
          /\ kind = k
          /\ shape = sc[1]
          /\ esize = sc[2]
    /\ mem = InitMem(shape[1], shape[2], esize)
    /\ view = InitView2
    /\ src = view
    /\ op = "init"
    /\ arg = <<>>
    /\ acc = NoAcc
    /\ nops = 0

Next2 ==
    \/ MakeSizedMatrixView
    \/ ReverseRowView
    \/ ReverseColView
    \/ ForEachView
    \/ MakeImageBmpFromRaw
    \/ VisitImageBmp
    \/ MakeTensorView2
    \/ IterateSequence
    \/ TensorReverse
    \/ TensorTraverse
    \/ TensorIteratorPlus
    \/ TensorIteratorInc
    \/ TensorIteratorDec
    \/ MatrixRowAt
    \/ MatrixColAt
    \/ MakeVectorView
    \/ ReverseView
    \/ ContainerBack
    \/ VectorViewBack
    \/ Det
    \/ VectorViewCompound
    \/ MatrixViewEqual

Spec2 == Init2 /\ [][Next2]_vars

---------------------------------------------------------------------------
\* C1: transpose_view(V) has width V.height, height V.width and V's base
\* pointer, and transposing it again gives back V's base pointer, row
\* delta, column delta, width and height.
C1_TransposeRoundTrip ==
    (kind = "matrix_view" /\ op = "transpose_view") =>
        LET tt == transpose_view(view) IN
        /\ view.mWidth = src.mHeight
        /\ view.mHeight = src.mWidth
        /\ view.mPtr = src.mPtr
        /\ tt.mPtr = src.mPtr
        /\ tt.mDeltaY = src.mDeltaY
        /\ tt.mDeltaX = src.mDeltaX
        /\ tt.mWidth = src.mWidth
        /\ tt.mHeight = src.mHeight

C1_Witness ==
    /\ kind = "matrix_view"
    /\ op = "transpose_view"
    /\ src.mWidth # src.mHeight
    /\ src.mDeltaX < 0
    /\ src.mDeltaY > 1

\* C2: reversing the same axis of a 2-D view twice (reverse_row_view,
\* reverse_col_view, tensor_view::reverse or the algorithm reverse with the
\* same axis mask) gives back the base pointer, both strides and both
\* lengths of the original view.
C2_ReverseTwice ==
    /\ (kind = "matrix_view" /\ op = "reverse_row_view") =>
            reverse_row_view(view) = src
    /\ (kind = "matrix_view" /\ op = "reverse_col_view") =>
            reverse_col_view(view) = src
    /\ (kind = "tensor_view2" /\ op = "tensor_view::reverse") =>
            /\ tensor_reverse(view, arg).mPtr = src.mPtr
            /\ tensor_reverse(view, arg).mLengths = src.mLengths
    /\ (kind = "tensor_view2" /\ op = "reverse") =>
            /\ algorithm_reverse(view, arg).mPtr = src.mPtr
            /\ algorithm_reverse(view, arg).mLengths = src.mLengths

C2_Witness ==
    /\ kind = "matrix_view"
    /\ op = "reverse_row_view"
    /\ nops = 2
    /\ src.mDeltaX < -1
    /\ src.mWidth > 1
    /\ view.mPtr # src.mPtr

\* C3: with T = transpose_view(V), T[(i, j)] is the memory cell V[(j, i)]:
\* a value written through T at (i, j) is read through V at (j, i), and a
\* value written through V at (j, i) is read through T at (i, j).
C3_TransposeAliases ==
    (kind = "matrix_view" /\ op = "transpose_view" /\ acc.what = "write") =>
        LET written == MvAt(IF acc.who = "view" THEN view ELSE src, acc.x, acc.y)
            other == MvAt(IF acc.who = "view" THEN src ELSE view, acc.y, acc.x)
        IN  /\ other = written
            /\ Elem(mem, other) = acc.val

C3_Witness ==
    /\ kind = "matrix_view"
    /\ op = "transpose_view"
    /\ acc.what = "write"
    /\ acc.who = "view"
    /\ view.mWidth = 4
    /\ view.mHeight = 4
    /\ acc.x = 3
    /\ acc.y = 1

\* C4: a sub-view S taken at offset o keeps the strides of the view V it
\* was taken from, and S[k] is the cell V[o + k] for every valid k (per
\* axis for matrix_view::view and matrix::view).
C4_SubViewAliases ==
    /\ (kind = "matrix_view" /\ op = "matrix_view::view") =>
            /\ view.mDeltaX = src.mDeltaX
            /\ view.mDeltaY = src.mDeltaY
            /\ \A kx \in 0..(arg[3] - 1), ky \in 0..(arg[4] - 1) :
                   MvAt(view, kx, ky) = MvAt(src, arg[1] + kx, arg[2] + ky)
    /\ (kind = "matrix_view" /\ op = "matrix::view(x,y,w,h)") =>
            /\ view.mDeltaX = 1
            /\ view.mDeltaY = shape[2]
            /\ \A kx \in 0..(arg[3] - 1), ky \in 0..(arg[4] - 1) :
                   MvAt(view, kx, ky) = matrix_at(arg[1] + kx, arg[2] + ky)
    /\ (kind = "vector_view" /\ op = "vector_view::view") =>
            /\ view.mDelta = src.mDelta
            /\ \A k \in 0..(arg[2] - 1) : VvAt(view, k) = VvAt(src, arg[1] + k)

C4_Witness ==
    /\ kind = "matrix_view"
    /\ op = "matrix_view::view"
    /\ arg[1] = 1
    /\ arg[2] = 1
    /\ src.mDeltaX < 0
    /\ src.mDeltaY > 1

\* C5: a force::matrix or force::vector built or assigned from c.view()
\* holds, element for element, the elements of the container c.
C5_CopyFidelity ==
    /\ (kind = "matrix_view" /\ op = "init" /\ acc.what = "matrix") =>
            acc.mData = [k \in 1..NumElems |-> Elem(mem, k - 1)]
    /\ (kind = "vector_view" /\ op = "init" /\ acc.what = "vector") =>
            acc.mData = [k \in 1..NumElems |-> Elem(mem, k - 1)]

C5_Witness ==
    /\ kind = "matrix_view"
    /\ op = "init"
    /\ shape = <<4, 4>>
    /\ view = matrix_to_view
    /\ acc.what = "matrix"

\* C6: the buffer [1,1,1, 2,2,2, 3,3,3, 4,4,4] viewed as 2 rows x 2 columns
\* of 3-element vectors and reversed along the row axis iterates as
\* [3,3,3],[4,4,4] then [1,1,1],[2,2,2], and the buffer is unchanged.
C6_ReversedRows ==
    /\ (/\ kind = "matrix_view" /\ shape = <<2, 2>> /\ esize = 3
        /\ op = "reverse_col_view" /\ nops = 1 /\ src = matrix_to_view
        /\ acc.what = "for_each_view") =>
            /\ acc.seen = <<<<3, 3, 3>>, <<4, 4, 4>>, <<1, 1, 1>>, <<2, 2, 2>>>>
            /\ mem = [c \in 0..11 |-> <<1, 1, 1, 2, 2, 2, 3, 3, 3, 4, 4, 4>>[c + 1]]
    /\ (/\ kind = "tensor_view2" /\ shape = <<2, 2>> /\ esize = 3
        /\ op \in {"tensor_view::reverse", "reverse"} /\ arg = access_vertical
        /\ nops = 1 /\ src = basic_matrix_view2
        /\ acc.what = "basic_matrix") =>
            /\ acc.mData = <<<<3, 3, 3>>, <<4, 4, 4>>, <<1, 1, 1>>, <<2, 2, 2>>>>
            /\ mem = [c \in 0..11 |-> <<1, 1, 1, 2, 2, 2, 3, 3, 3, 4, 4, 4>>[c + 1]]

C6_Witness ==
    /\ kind = "matrix_view" /\ shape = <<2, 2>> /\ esize = 3
    /\ op = "reverse_col_view" /\ nops = 1 /\ src = matrix_to_view
    /\ acc.what = "for_each_view"

\* C7: reverse_view(v) has delta -d, length L and base v.base + d * (L - 1),
\* so reverse_view(v)[k] is the cell v[L - 1 - k], and reversing twice
\* gives back the base, delta and length of v.
C7_ReverseView ==
    (kind = "vector_view" /\ op = "reverse_view") =>
        /\ view.mDelta = -src.mDelta
        /\ view.mLength = src.mLength
        /\ view.mPtr = src.mPtr + src.mDelta * (src.mLength - 1)
        /\ \A k \in 0..(src.mLength - 1) :
               VvAt(view, k) = VvAt(src, src.mLength - 1 - k)
        /\ reverse_view(view) = src

\* C8: a container built from a view V holds, at flat position k, the k-th
\* element visited by iterating V.
C8_CopiesInIterationOrder ==
    /\ (kind = "matrix_view" /\ acc.what = "matrix") =>
            acc.mData = [k \in 1..Len(MvVisit(view)) |-> Elem(mem, MvVisit(view)[k])]
    /\ (kind = "tensor_view2" /\ acc.what \in {"basic_matrix", "container::basic_matrix"}) =>
            acc.mData = [k \in 1..Len(Tv2Visit(view)) |-> Elem(mem, Tv2Visit(view)[k])]
    /\ (kind = "tensor_view1" /\ acc.what \in {"basic_matrix", "container::basic_matrix"}) =>
            acc.mData = [k \in 1..Len(Tv1Visit(view)) |-> Elem(mem, Tv1Visit(view)[k])]

\* C9: for an iterator with base b and stride s, it + k and it[k] both
\* address the element at b + k * s.
C9_RandomAccess ==
    /\ (kind = "vector_iterator" /\ op = "operator+") =>
            view.mPtr = src.mPtr + arg * src.mDelta
    /\ (kind = "tensor_iterator" /\ op = "operator+") =>
            view.mPtr = src.mPtr + arg * src.mFirstStride
    /\ (kind = "vector_iterator" /\ acc.what = "operator[]") =>
            /\ acc.addr = view.mPtr + acc.k * view.mDelta
            /\ acc.addr = vector_iterator_plus(view, acc.k).mPtr
    /\ (kind = "tensor_iterator" /\ acc.what = "operator[]") =>
            /\ acc.addr = view.mPtr + acc.k * view.mFirstStride
            /\ acc.addr = tensor_iterator_plus(view, acc.k).mPtr

\* C10: apply(f) replaces each element the view addresses by f(element)
\* exactly once and changes no other cell, whatever the sign of the
\* stride; apply(range, f) pairs the k-th element with the k-th element of
\* the range.
C10_ApplyEachOnce ==
    (kind \in {"tensor_view1", "tensor_view2"} /\ acc.what = "apply") =>
        LET a == IF kind = "tensor_view1"
                 THEN [k \in 1..view.mLengths[2] |-> Tv1At(view, k - 1)]
                 ELSE Tv2Visit(view)
            want(k) == IF acc.rg
                       THEN BinaryFn(Elem(acc.before, a[k]), Rng(k))
                       ELSE UnaryFn(Elem(acc.before, a[k]))
        IN  (\A j, k \in 1..Len(a) : a[j] = a[k] => j = k) =>
                /\ \A k \in 1..Len(a) : Elem(mem, a[k]) = want(k)
                /\ \A c \in 0..(NumElems - 1) :
                       (\A k \in 1..Len(a) : a[k] # c) =>
                           Elem(mem, c) = Elem(acc.before, c)

\* C11: emplace / set of a range of size() elements leaves the k-th element
\* visited by iterating the view equal to range[k], for 1-D views and for
\* 2-D views with more than one row and more than one column, and writes
\* no cell outside the view.
C11_EmplaceInIterationOrder ==
    (/\ kind \in {"tensor_view1", "tensor_view2"}
     /\ acc.what = "emplace"
     /\ kind = "tensor_view2" => (view.mLengths[2] > 1 /\ view.mLengths[4] > 1)) =>
        LET a == IF kind = "tensor_view1" THEN Tv1Visit(view) ELSE Tv2Visit(view)
        IN  (\A j, k \in 1..Len(a) : a[j] = a[k] => j = k) =>
                /\ \A k \in 1..Len(a) : Elem(mem, a[k]) = Rng(k)
                /\ \A c \in 0..(NumElems - 1) :
                       (\A k \in 1..Len(a) : a[k] # c) =>
                           Elem(mem, c) = Elem(acc.before, c)

\* C12: copying a 2-D view out to a contiguous destination writes the k-th
\* element of the view's iteration order to dest[k], rows one after
\* another, and returns dest + size().
C12_CopyOutInIterationOrder ==
    (kind \in {"matrix_view", "tensor_view2"} /\ acc.what = "copy") =>
        LET a == IF kind = "matrix_view" THEN MvVisit(view) ELSE Tv2Visit(view)
        IN  /\ acc.dest = [k \in 1..Len(a) |-> Elem(mem, a[k])]
            /\ acc.ret = Len(a)

\* C13: v *= s and v /= s multiply / divide exactly the cells the view
\* addresses, each once, for any nonzero stride; every other cell and the
\* view's own base, strides and lengths are unchanged.
C13_ScaleInPlace ==
    (kind \in {"vector_view", "matrix_view"} /\ acc.what = "scale") =>
        LET cells == IF kind = "vector_view" THEN VvCells(view) ELSE MvCells(view)
            count == IF kind = "vector_view" THEN view.mLength
                     ELSE view.mWidth * view.mHeight
        IN  Cardinality(cells) = count =>
                /\ view = acc.self
                /\ \A c \in 0..(NumElems - 1) :
                       Elem(mem, c) = IF c \in cells
                                      THEN ScaleFn(acc.opn, Elem(acc.before, c), acc.s)
                                      ELSE Elem(acc.before, c)

\* C14: no operation on a view changes the view's own base, stride or
\* length fields, or any other field that decides which cells it addresses
\* and in which order: after a member call that returns no new view the
\* fields are as they were before the call.
C14_ViewFieldsImmutable ==
    /\ (op \in {"vector_view::delta", "vector_view::length",
                "vector_iterator::stride", "iterate_sequence"}) => view = src
    /\ (acc.what = "scale") => view = acc.self

\* C15: element access by flat index k addresses the cell
\* base + k * (stride of the view's first axis), for vector_view,
\* matrix_view and tensor_view.
C15_FlatIndexFirstStride ==
    (acc.what = "flat[]") =>
        acc.addr = view.mPtr + acc.k * (CASE kind = "vector_view" -> view.mDelta
                                          [] kind = "matrix_view" -> view.mDeltaX
                                          [] OTHER -> view.mLengths[1])

\* C16: view() on an owning M x N matrix is a view of the matrix's own
\* storage with column stride 1, row stride N, width N, height M and
\* size M * N, whose element (x, y) is the cell m[y * N + x]; view() on an
\* N-vector has stride 1 and length N.
C16_ContainerView ==
    /\ (kind = "matrix_view" /\ op = "init") =>
            /\ view.mDeltaX = 1 /\ view.mDeltaY = shape[2]
            /\ view.mWidth = shape[2] /\ view.mHeight = shape[1]
            /\ \A x \in 0..(shape[2] - 1), y \in 0..(shape[1] - 1) :
                   MvAt(view, x, y) = y * shape[2] + x /\ MvAt(view, x, y) = matrix_at(x, y)
    /\ (kind = "tensor_view2" /\ op = "init") =>
            /\ view.mLengths = <<1, shape[2], shape[2], shape[1]>>
            /\ tensor_size(view) = shape[1] * shape[2]
            /\ \A x \in 0..(shape[2] - 1), y \in 0..(shape[1] - 1) :
                   Tv2At(view, x, y) = y * shape[2] + x
    /\ (kind = "vector_view" /\ op = "init") =>
            view.mPtr = 0 /\ view.mDelta = 1 /\ view.mLength = NumElems
    /\ (kind = "tensor_view1" /\ op = "init") =>
            view.mPtr = 0 /\ view.mLengths = <<1, NumElems>>

C16_Witness ==
    /\ kind = "matrix_view"
    /\ op = "init"
    /\ shape = <<3, 1>>
    /\ view.mWidth = 1
    /\ view.mHeight = 3
    /\ nops = 0
    /\ acc = NoAcc

C18_ReversedIteration ==
    (kind = "matrix_view" /\ MvValid(src) /\
     op \in {"rotate_view_pi", "reverse_col_view", "reverse_row_view"}) =>
        LET a == MvVisit(src)
            b == MvVisit(view)
            w == src.mWidth
            h == src.mHeight
            at(s, r, c) == s[r * w + c + 1]
        IN  /\ Len(b) = Len(a)
            /\ Len(a) = w * h
            /\ \A r \in 0..(h - 1), c \in 0..(w - 1) :
                   at(b, r, c) = CASE op = "rotate_view_pi" -> at(a, h - 1 - r, w - 1 - c)
                                   [] op = "reverse_col_view" -> at(a, h - 1 - r, c)
                                   [] op = "reverse_row_view" -> at(a, r, w - 1 - c)
            /\ op = "rotate_view_pi" =>
                   \A k \in 1..Len(a) : b[k] = a[Len(a) + 1 - k]

C18_Witness ==
    /\ kind = "matrix_view"
    /\ op = "rotate_view_pi"
    /\ MvValid(src)
    /\ src.mWidth = 4
    /\ src.mHeight = 4
    /\ MvVisit(view)[1] = 15

\* C19: begin() / end() of a 2-D tensor view asked to iterate with a
\* sequence that is neither the horizontal nor the vertical one fails with
\* a distinguishable error and produces no iterator.
C19_BadSequenceFails ==
    (/\ kind = "tensor_view2"
     /\ acc.what \in {"begin", "end"}
     /\ acc.seq \notin {access_horizontal, access_vertical}) =>
        acc.result.status = "out_of_range"

\* C20: a 1-D tensor view sub-view taken with offset o and length l, and
\* given the parent's stride, starts at the parent's element o, keeps the
\* stride and has length l: its k-th iterated element is the parent's
\* (o+k)-th iterated element for every k < l.
C20_SubViewOfParent ==
    (/\ kind = "tensor_view1"
     /\ op = "tensor_view::view"
     /\ acc = NoAcc
     /\ arg[2] = src.mLengths[1]) =>
        /\ view.mPtr = src.mPtr + arg[1] * src.mLengths[1]
        /\ view.mLengths = <<src.mLengths[1], arg[3]>>
        /\ \A k \in 0..(arg[3] - 1) :
               Tv1Visit(view)[k + 1] = Tv1Visit(src)[arg[1] + k + 1]

\* C21: for a 2-D tensor view V with the horizontal or the vertical
\* iterate_sequence, V.transpose().transpose() and V.reverse(a).reverse(a)
\* iterated through begin()/end() visit the same elements in the same order
\* as V: the round trip keeps base, strides, lengths and V's iteration order.
C21_RoundTripKeepsIteration ==
    /\ (/\ kind = "tensor_view2"
        /\ op = "tensor_view::transpose"
        /\ SeqOk(src.mSeq)) =>
            LET tt == tensor_transpose(view) IN
            /\ tt.mPtr = src.mPtr
            /\ tt.mLengths = src.mLengths
            /\ Tv2Visit(tt) = Tv2Visit(src)
    /\ (/\ kind = "tensor_view2"
        /\ op = "tensor_view::reverse"
        /\ SeqOk(src.mSeq)) =>
            LET rr == tensor_reverse(view, arg) IN
            /\ rr.mPtr = src.mPtr
            /\ rr.mLengths = src.mLengths
            /\ Tv2Visit(rr) = Tv2Visit(src)

\* C22: for_each_view(view, fi, fo) on a matrix_view of width W and height
\* H calls fi exactly W*H times, once per element in row-major view order,
\* and fo exactly H times, each right after the last element of a row and
\* before the first element of the next; with W = 0 or H = 0 fi is never
\* called.
C22_ForEachViewCalls ==
    (kind = "matrix_view" /\ acc.what = "for_each_view") =>
        LET W == view.mWidth
            H == view.mHeight
            calls == acc.calls
        IN  /\ Len(calls) = H * (W + 1)
            /\ \A k \in 1..Len(calls) :
                 LET y == (k - 1) \div (W + 1)
                     x == (k - 1) % (W + 1)
                 IN  IF x < W
                     THEN calls[k] = [fn |-> "fi", at |-> MvAt(view, x, y)]
                     ELSE calls[k].fn = "fo"
            /\ Cardinality({k \in 1..Len(calls) : calls[k].fn = "fi"}) = W * H
            /\ Cardinality({k \in 1..Len(calls) : calls[k].fn = "fo"}) = H
            /\ (W = 0 \/ H = 0) => \A k \in 1..Len(calls) : calls[k].fn # "fi"

C22_Witness ==
    /\ kind = "matrix_view"
    /\ acc.what = "for_each_view"
    /\ view.mWidth = 2
    /\ view.mHeight = 2
    /\ view.mDeltaX < 0
    /\ view.mDeltaY > 1
    /\ Len(acc.calls) = 6

\* C23: rotate_view_half_pi(V) has width V.height and height V.width and
\* its element (x', y') is the cell V[(V.width - 1 - y', x')];
\* rotate_view_neg_half_pi undoes it and is undone by it (base, both
\* deltas, width and height of V come back), and rotate_view_half_pi applied
\* twice equals rotate_view_pi(V).
C23_QuarterTurns ==
    /\ (kind = "matrix_view" /\ op = "rotate_view_half_pi") =>
            /\ view.mWidth = src.mHeight
            /\ view.mHeight = src.mWidth
            /\ \A x \in 0..(view.mWidth - 1), y \in 0..(view.mHeight - 1) :
                   MvAt(view, x, y) = MvAt(src, src.mWidth - 1 - y, x)
            /\ rotate_view_neg_half_pi(view) = src
            /\ rotate_view_half_pi(view) = rotate_view_pi(src)
    /\ (kind = "matrix_view" /\ op = "rotate_view_neg_half_pi") =>
            rotate_view_half_pi(view) = src

C23_Witness ==
    /\ kind = "matrix_view"
    /\ op = "rotate_view_half_pi"
    /\ src.mWidth = 2
    /\ src.mHeight = 1
    /\ src.mDeltaY > 1
    /\ view.mPtr # src.mPtr

\* C24: an image_bmp made by make_image_bmp_from_raw for a supported depth
\* (8, 16, 24, 32) holds the pixel-view alternative that visit_image_bmp
\* selects for that depth, so visiting it (and image_bmp_byte_size and
\* write_image_bmp_to_stream) never fails with a wrong-alternative error.
C24_VisitFindsAlternative ==
    (/\ kind = "image_bmp"
     /\ op = "make_image_bmp_from_raw"
     /\ acc.what = "visit") =>
        acc.result.status = "view"

\* C25: the nested traversal "for outer in [v.begin(), v.end()): for inner
\* in [outer.begin(), outer.end())" over a 2-D view with nonzero strides of
\* either sign ends after size() elements and visits the addresses
\* base + i * outer_stride + j * inner_stride in lexicographic (i, j) order,
\* each pair once; advancing the outer iterator (++, --, + k) keeps the
\* inner stride and inner length it carries.
C25_NestedTraversal ==
    /\ (kind = "tensor_view2" /\ acc.what = "traverse") =>
            LET hor == view.mSeq = access_horizontal
                os == IF hor THEN view.mLengths[1] ELSE view.mLengths[3]
                ol == IF hor THEN view.mLengths[2] ELSE view.mLengths[4]
                is == IF hor THEN view.mLengths[3] ELSE view.mLengths[1]
                il == IF hor THEN view.mLengths[4] ELSE view.mLengths[2]
            IN  /\ Len(acc.visited) = tensor_size(view)
                /\ Len(acc.visited) = ol * il
                /\ \A k \in 1..Len(acc.visited) :
                       acc.visited[k] = view.mPtr + ((k - 1) \div il) * os
                                                  + ((k - 1) % il) * is
    /\ (/\ kind = "tensor_iterator"
        /\ op \in {"operator+", "operator++", "operator--"}) =>
            /\ view.mSubRangeInfo = src.mSubRangeInfo
            /\ view.mFirstStride = src.mFirstStride

C25_Witness ==
    /\ kind = "tensor_view2"
    /\ acc.what = "traverse"
    /\ view.mSeq = access_horizontal
    /\ view.mLengths[1] < 0
    /\ view.mLengths[2] = 2
    /\ view.mLengths[4] = 2
    /\ Len(acc.visited) = 4

\* C26: for an owning matrix m of M rows and N columns and every column
\* 0 <= i < N, element k of m.col_at(i) is the cell m[k * N + i] for
\* 0 <= k < M, the same cells in the same order as m.view().col_at(i), all
\* inside the matrix's M * N cells; likewise m.row_at(j)[k] is m[j * N + k].
C26_RowAndColumnOfMatrix ==
    /\ (kind = "matrix" /\ acc.what = "col_at") =>
            /\ acc.result.mLength = shape[1]
            /\ \A k \in 0..(shape[1] - 1) :
                   /\ VvAt(acc.result, k) = k * shape[2] + acc.i
                   /\ VvAt(acc.result, k) = VvAt(acc.of_view, k)
                   /\ InBuf(VvAt(acc.result, k))
    /\ (kind = "matrix" /\ acc.what = "row_at") =>
            /\ acc.result.mLength = shape[2]
            /\ \A k \in 0..(shape[2] - 1) :
                   /\ VvAt(acc.result, k) = acc.i * shape[2] + k
                   /\ InBuf(VvAt(acc.result, k))

\* C27: back() of a non-empty vector, matrix or vector_view is the last
\* element (index size() - 1; for a view the cell base + (length - 1) *
\* delta) and never a cell past the end of the storage or of the view.
C27_BackIsLastElement ==
    /\ (kind = "matrix" /\ acc.what = "back") =>
            /\ acc.addr = NumElems - 1
            /\ InBuf(acc.addr)
    /\ (kind = "vector_view" /\ acc.what = "back") =>
            /\ acc.addr = VvAt(view, view.mLength - 1)
            /\ acc.addr \in VvCells(view)

\* C28: det(mat) of an M x M matrix multiplies exactly the M diagonal
\* entries of the upper factor of decompose_lu, the cells at flat indices
\* i * (M + 1) for 0 <= i < M, for every M >= 1, and reads no cell outside
\* the factor's M * M cells.
C28_DetReadsDiagonal ==
    (kind = "matrix" /\ acc.what = "det") =>
        /\ Len(acc.reads) = shape[1]
        /\ \A i \in 0..(shape[1] - 1) :
               /\ acc.reads[i + 1] = i * (shape[1] + 1)
               /\ InBuf(acc.reads[i + 1])

\* C29: for vector_views v and w of equal length (over different cells),
\* v += w, v -= w, v *= w and v /= w set each element v[i], the cell
\* base + i * delta, to v[i] + w[i], v[i] - w[i], v[i] * w[i] and
\* v[i] / w[i], and leave w and every cell that v does not address unchanged.
C29_CompoundElementwise ==
    (/\ kind = "vector_view"
     /\ acc.what = "compound"
     /\ VvCells(view) \cap VvCells(acc.w) = {}) =>
        /\ \A i \in 0..(view.mLength - 1) :
               LET a == Elem(acc.before, VvAt(view, i))
                   b == Elem(acc.before, VvAt(acc.w, i))
               IN  Elem(mem, VvAt(view, i)) =
                       [c \in 1..esize |->
                           CASE acc.opn = "+=" -> a[c] + b[c]
                             [] acc.opn = "-=" -> a[c] - b[c]
                             [] acc.opn = "*=" -> a[c] * b[c]
                             [] acc.opn = "/=" -> a[c] \div b[c]]
        /\ \A p \in 0..(NumElems - 1) :
               p \notin VvCells(view) => Elem(mem, p) = Elem(acc.before, p)

\* C30: matrix_view equality is symmetric and shape-aware: (a == b) equals
\* (b == a); two views of different height or width are never equal; two
\* views of equal shape are equal exactly when every element (x, y) of a
\* equals element (x, y) of b.
C30_EqualitySymmetricShapeAware ==
    (kind = "matrix_view" /\ acc.what = "==") =>
        LET a == view
            b == acc.b
            sameShape == a.mWidth = b.mWidth /\ a.mHeight = b.mHeight
        IN  /\ acc.ab = acc.ba
            /\ ~sameShape => ~acc.ab
            /\ sameShape =>
                 (acc.ab <=>
                    \A x \in 0..(a.mWidth - 1), y \in 0..(a.mHeight - 1) :
                        Elem(mem, MvAt(a, x, y)) = Elem(mem, MvAt(b, x, y)))

=============================================================================
